---- MODULE Spec2Model ----
(***************************************************************************)
(* Personal Finance Vault (pfvault): the setup / two-step login / unlock / *)
(* mutate-and-persist / logout / reset session of the single-page App, and *)
(* the Web Crypto helpers it is built on.                                   *)
(*                                                                          *)
(* Cryptographic primitives are modelled symbolically (Dolev-Yao style): a  *)
(* derived key, a digest and a ciphertext are terms that record what they   *)
(* were computed from, two terms are equal iff they were computed from the  *)
(* same inputs, and AES-GCM decryption succeeds iff key and IV are the ones *)
(* the ciphertext was produced with.  The secure random generator is ideal: *)
(* every call of randBytes / newId returns a value never returned before.   *)
(*                                                                          *)
(* handleSetup, verifyPassword and verifyQuestions are one step each: the   *)
(* user does not act on the page while the handler of a form is awaiting.   *)
(* persist is called without being awaited, so each call is two steps, up   *)
(* to its await and after it, and the suspended calls resume in any order.  *)
(***************************************************************************)
EXTENDS Integers, Sequences, FiniteSets, TLC

VARIABLES
    store,      \* localStorage[LS_KEY]: the raw stored item
    rng,        \* number of values the random generator has handed out
    setups,     \* number of times handleSetup has saved a state
    boot,       \* App.boot: "loading" | "setup" | "login" | "app"
    firstName,  \* App.firstName
    aesKey,     \* App.aesKey
    data,       \* App.data, the in-memory payload
    setupErr,   \* SetupScreen.err
    lsPassword, \* LoginScreen.password
    lsStep,     \* LoginScreen.step
    lsAnswers,  \* LoginScreen.answers, keyed by question text
    lsErr,      \* LoginScreen.err
    lsState,    \* LoginScreen's `state`: loadState() at its last render
    pending,    \* the calls of persist suspended at their await, with what they hold
    ivLog,      \* the IVs of the encryptions made so far, oldest first (history variable)
    setupInput, \* what the last successful Setup was given, and its IV (history variable)
    lsVerified  \* what verifyPassword compared when it moved to step 2 (history variable)

vars == <<store, rng, setups, boot, firstName, aesKey, data, setupErr, lsPassword,
          lsStep, lsAnswers, lsErr, lsState, pending, setupInput, lsVerified, ivLog>>

appVars == <<boot, firstName, aesKey, data>>
loginVars == <<lsPassword, lsStep, lsAnswers, lsErr, lsState, lsVerified>>

-----------------------------------------------------------------------------
(* Bounds of the model *)

\* times handleSetup may save a state in one run
MaxSetups == 2
\* random values that may be drawn in one run for category ids and by persist
MaxDraws == 4

-----------------------------------------------------------------------------
(* Program constants *)

ITERATIONS == 210000
KEY_LEN == 32
SALT_LEN == 16
IV_LEN == 12
NUM_QAS == 5
VERSION == 1

DefaultQ == << "Your first school?", "Mother's maiden name?", "Favorite book?",
               "City you were born?", "First pet's name?" >>

-----------------------------------------------------------------------------
(* Input alphabets *)

FirstNames == {"", "Arif"}

\* what is typed into a password field; Setup is given SetupPasswords as
\* password and any of Passwords as confirmation
Passwords == {"", "pw1234", "wrongpw"}
SetupPasswords == {"", "pw1234"}

\* Answers are sequences of characters, so that trim() and toLowerCase() act on them.
NoAnswer == << >>
Blue == <<"b","l","u","e">>
BlueTyped == <<" ","B","l","u","e"," ">>
Red == <<"r","e","d">>

QTexts == {DefaultQ[i] : i \in 1..NUM_QAS}
Rows == 1..NUM_QAS

\* The five question/answer rows of the Setup form.  BaseQAs: the default
\* questions, all answered Blue.  DupQAs: the second question retyped as the
\* first one, and answered Red.  InvalidQAs: one question or one answer left empty.
BaseQAs == [i \in Rows |-> [q |-> DefaultQ[i], a |-> Blue]]
DupQAs == [BaseQAs EXCEPT ![2] = [q |-> DefaultQ[1], a |-> Red]]
InvalidQAs ==
    {[BaseQAs EXCEPT ![k].q = ""] : k \in Rows} \cup
    {[BaseQAs EXCEPT ![k].a = NoAnswer] : k \in Rows}
SetupQAs == {BaseQAs, DupQAs} \cup InvalidQAs

\* What the user types into the five answer fields of the login form, top to
\* bottom: Blue everywhere, except in at most one of LoginRows.
LoginRows == {1, 2, 5}
AllBlue == [i \in Rows |-> Blue]
AnswerScripts ==
    {AllBlue, [AllBlue EXCEPT ![1] = BlueTyped]} \cup
    {[AllBlue EXCEPT ![k] = Red] : k \in LoginRows}

-----------------------------------------------------------------------------
(* String helpers *)

IsSpace(c) == c = " "

RECURSIVE TrimStart(_)
TrimStart(s) ==
    IF s # << >> /\ IsSpace(Head(s)) THEN TrimStart(Tail(s)) ELSE s

RECURSIVE TrimEnd(_)
TrimEnd(s) ==
    IF s # << >> /\ IsSpace(s[Len(s)]) THEN TrimEnd(SubSeq(s, 1, Len(s) - 1)) ELSE s

\* String.prototype.trim
Trim(s) == TrimEnd(TrimStart(s))

LowerChar(c) == IF c = "B" THEN "b" ELSE c

\* String.prototype.toLowerCase
ToLowerCase(s) == [i \in 1..Len(s) |-> LowerChar(s[i])]

-----------------------------------------------------------------------------
(* Web Crypto helpers *)

\* toHex / fromHex and b64encode / b64decode: an encoded value is the text of
\* its bytes in that encoding; decoding reads the bytes back.
toHex(buf) == [enc |-> "hex", bytes |-> buf]
fromHex(hex) == hex.bytes
b64encode(buf) == [enc |-> "b64", bytes |-> buf]
b64decode(b64) == b64.bytes

\* randBytes(n): the k-th value handed out by the generator, n bytes long
randBytes(n, k) == [rand |-> k, len |-> n]

\* pbkdf2(password, salt, iterations, length): PBKDF2-HMAC-SHA-256 bits
pbkdf2(password, salt, iterations, length) ==
    [alg |-> "PBKDF2", password |-> password, salt |-> salt,
     iterations |-> iterations, length |-> length]

\* getAesKeyFromPassword: the AES-GCM key imported from the derived bits
getAesKeyFromPassword(password, salt) ==
    [alg |-> "AES-GCM", raw |-> pbkdf2(password, salt, ITERATIONS, KEY_LEN)]

sha256(buf) == [alg |-> "SHA-256", of |-> buf]

\* hashAnswer, had it hashed the answer as typed
hashAnswer_AsTyped(answer, saltBytes) ==
    LET concat == [text |-> answer, tail |-> saltBytes]
    IN  b64encode(sha256(concat))

\* hashAnswer(answer, saltBytes): digest of the normalised answer followed by the salt
hashAnswer(answer, saltBytes) ==
    LET norm == ToLowerCase(Trim(answer))
        concat == [text |-> norm, tail |-> saltBytes]
    IN  b64encode(sha256(concat))

\* JSON.stringify / JSON.parse of a payload
JsonStringify(obj) == [json |-> obj]
JsonParse(text) == text.json

\* encryptJson, had it encrypted under an all-zero IV instead of the one drawn
encryptJson_ZeroIv(obj, key, iv) ==
    LET zero == [rand |-> 0, len |-> IV_LEN]
    IN  [iv |-> b64encode(zero),
         ciphertext |-> b64encode([alg |-> "AES-GCM", key |-> key, iv |-> zero,
                                   plaintext |-> JsonStringify(obj)])]

\* encryptJson(obj, key) with the IV randBytes(12) returned to it
encryptJson(obj, key, iv) ==
    [iv |-> b64encode(iv),
     ciphertext |-> b64encode([alg |-> "AES-GCM", key |-> key, iv |-> iv,
                               plaintext |-> JsonStringify(obj)])]

\* crypto.subtle.decrypt verifies the tag: it throws unless key and IV are
\* those of the encryption
DecryptOk(ciphertextB64, ivB64, key) ==
    LET cipher == b64decode(ciphertextB64)
    IN  cipher.key = key /\ cipher.iv = b64decode(ivB64)

\* decryptJson(ciphertextB64, ivB64, key), when it does not throw
decryptJson(ciphertextB64, ivB64, key) ==
    JsonParse(b64decode(ciphertextB64).plaintext)

-----------------------------------------------------------------------------
(* Storage *)

\* localStorage.getItem(LS_KEY): null, a text that is not JSON, or a saved state
NoItem == [item |-> "null"]
GarbageItem == [item |-> "unparsable"]
Null == [null |-> TRUE]

\* loadState, had it returned an object for an item that is not JSON
loadState_ParsesAnything(raw) ==
    IF raw.item = "json" THEN raw.state
    ELSE IF raw.item = "null" THEN Null
    ELSE [user |-> [firstName |-> ""]]

\* loadState(): null for a missing or unparsable item
loadState(raw) == IF raw.item = "json" THEN raw.state ELSE Null

\* saveState(obj): the item written
saveState(obj) == [item |-> "json", state |-> obj]

\* clearState(): the item removed
clearState == NoItem

-----------------------------------------------------------------------------
(* App data *)

\* the payload literal of handleSetup, of useState in App and of onLogout
InitialData ==
    [categories |-> << >>, entries |-> << >>,
     currencies |-> << [code |-> "BDT", rate |-> 1] >>,
     baseCurrency |-> "BDT", history |-> << >>]

NoKey == [alg |-> "null"]

\* newId(): the k-th value handed out by the generator, as a UUID
newId(k) == [uuid |-> k]

\* onUnlock: { baseCurrency: 'BDT', currencies: [...], history: [], ...data }
Normalize(d) ==
    [f \in DOMAIN d \cup {"baseCurrency", "currencies", "history"} |->
        IF f \in DOMAIN d THEN d[f]
        ELSE IF f = "baseCurrency" THEN "BDT"
        ELSE IF f = "currencies" THEN << [code |-> "BDT", rate |-> 1] >>
        ELSE << >>]

\* no answer typed yet: answers[qa.q] || '' is ''
EmptyAnswers == [q \in QTexts |-> NoAnswer]

\* the qas LoginScreen renders: state?.auth?.qas || []
QasOf(state) == IF state = Null THEN << >> ELSE state.auth.qas

\* typing script[i] into the i-th answer field, top to bottom:
\* setAnswers(a => ({...a, [qa.q]: value}))
RECURSIVE TypeAnswers(_, _, _, _)
TypeAnswers(answers, qas, script, i) ==
    IF i > Len(qas) THEN answers
    ELSE TypeAnswers([answers EXCEPT ![qas[i].q] = script[i]], qas, script, i + 1)

-----------------------------------------------------------------------------
(* Mounting and unmounting of the screens *)

\* LoginScreen's useState initial values and its first render, which reads `raw`
MountLogin(raw) ==
    /\ lsPassword' = ""
    /\ lsStep' = 1
    /\ lsAnswers' = EmptyAnswers
    /\ lsErr' = ""
    /\ lsState' = loadState(raw)
    /\ lsVerified' = Null

\* LoginScreen is not on screen: its state is gone
NoLogin ==
    /\ lsPassword' = ""
    /\ lsStep' = 1
    /\ lsAnswers' = EmptyAnswers
    /\ lsErr' = ""
    /\ lsState' = Null
    /\ lsVerified' = Null

\* A re-render of LoginScreen reads the store again
Rerender == lsState' = loadState(store)

-----------------------------------------------------------------------------
(* App: boot *)

Init ==
    /\ store \in {NoItem, GarbageItem}
    /\ rng = 0
    /\ setups = 0
    /\ boot = "loading"
    /\ firstName = ""
    /\ aesKey = NoKey
    /\ data = InitialData
    /\ setupErr = ""
    /\ lsPassword = ""
    /\ lsStep = 1
    /\ lsAnswers = EmptyAnswers
    /\ lsErr = ""
    /\ lsState = Null
    /\ lsVerified = Null
    /\ pending = {}
    /\ setupInput = Null
    /\ ivLog = << >>

\* useEffect(() => {...}, []) of App
Boot ==
    /\ boot = "loading"
    /\ LET state == loadState(store)
       IN  IF state = Null
           THEN /\ boot' = "setup"
                /\ firstName' = firstName
                /\ NoLogin
           ELSE /\ firstName' = state.user.firstName
                /\ boot' = "login"
                /\ MountLogin(store)
    /\ setupErr' = ""
    /\ UNCHANGED <<store, rng, setups, aesKey, data, pending, setupInput, ivLog>>

\* The page is loaded again: the in-memory state and every suspended call are gone
Reload ==
    /\ boot # "loading"
    /\ boot' = "loading"
    /\ firstName' = ""
    /\ aesKey' = NoKey
    /\ data' = InitialData
    /\ setupErr' = ""
    /\ NoLogin
    /\ pending' = {}
    /\ UNCHANGED <<store, rng, setups, setupInput, ivLog>>

-----------------------------------------------------------------------------
(* SetupScreen *)

\* the validation of handleSetup, had it not compared password and confirm
SetupError_NoConfirm(fn, pw, cf, qas) ==
    IF fn = "" \/ pw = "" \/ cf = "" THEN "Please fill all required fields."
    ELSE IF \E i \in 1..Len(qas) : qas[i].q = "" \/ qas[i].a = NoAnswer
         THEN "Please provide all 5 questions and answers."
    ELSE ""

\* the validation of handleSetup: the message shown, "" when the form is accepted
SetupError(fn, pw, cf, qas) ==
    IF fn = "" \/ pw = "" \/ cf = "" THEN "Please fill all required fields."
    ELSE IF pw # cf THEN "Passwords do not match."
    ELSE IF \E i \in 1..Len(qas) : qas[i].q = "" \/ qas[i].a = NoAnswer
         THEN "Please provide all 5 questions and answers."
    ELSE ""

\* the hashed Q&A rows, had each row kept its answer
HashQas_KeepsAnswer(qas, k) ==
    [i \in 1..Len(qas) |->
        LET salt == randBytes(SALT_LEN, k + i - 1)
        IN  [q |-> qas[i].q, a |-> qas[i].a, saltB64 |-> b64encode(salt),
             hashB64 |-> hashAnswer(qas[i].a, salt)]]

\* the hashed Q&A rows, had one salt been drawn for all of them
HashQas_SharedSalt(qas, k) ==
    [i \in 1..Len(qas) |->
        LET salt == randBytes(SALT_LEN, k)
        IN  [q |-> qas[i].q, saltB64 |-> b64encode(salt),
             hashB64 |-> hashAnswer(qas[i].a, salt)]]

\* the hashed Q&A rows, each with the salt randBytes(16) returned for it
HashQas(qas, k) ==
    [i \in 1..Len(qas) |->
        LET salt == randBytes(SALT_LEN, k + i - 1)
        IN  [q |-> qas[i].q, saltB64 |-> b64encode(salt),
             hashB64 |-> hashAnswer(qas[i].a, salt)]]

\* the state handleSetup saves, from the values the generator hands out next
SetupState(fn, pw, qas, k) ==
    LET saltPwd == randBytes(SALT_LEN, k)
        verifierHex == toHex(pbkdf2(pw, saltPwd, ITERATIONS, KEY_LEN))
        saltEnc == randBytes(SALT_LEN, k + 1)
        key == getAesKeyFromPassword(pw, saltEnc)
        qasHashed == HashQas(qas, k + 2)
        enc == encryptJson(InitialData, key, randBytes(IV_LEN, k + 2 + Len(qas)))
    IN  [version |-> VERSION,
         user |-> [firstName |-> fn],
         auth |-> [saltPwdHex |-> toHex(saltPwd), verifierHex |-> verifierHex,
                   qas |-> qasHashed],
         enc |-> [saltEncHex |-> toHex(saltEnc), ivB64 |-> enc.iv,
                  ciphertextB64 |-> enc.ciphertext]]

\* the random values one handleSetup draws
SetupDraws == 3 + NUM_QAS

\* handleSetup on the form as filled in
HandleSetup(fn, pw, cf, qas) ==
    /\ boot = "setup"
    /\ LET err == SetupError(fn, pw, cf, qas)
       IN  IF err # ""
           THEN /\ setupErr' = err
                /\ UNCHANGED <<store, rng, setups, boot, setupInput, ivLog>>
                /\ UNCHANGED loginVars
           ELSE /\ setups < MaxSetups
                /\ store' = saveState(SetupState(fn, pw, qas, rng))
                /\ rng' = rng + SetupDraws
                /\ setups' = setups + 1
                /\ setupErr' = ""
                /\ boot' = "login"
                /\ MountLogin(store')
                /\ setupInput' = [password |-> pw, qas |-> qas,
                                  ivB64 |-> loadState(store').enc.ivB64]
                /\ ivLog' = Append(ivLog, loadState(store').enc.ivB64)
    /\ UNCHANGED <<firstName, aesKey, data, pending>>

-----------------------------------------------------------------------------
(* App: persist *)

\* persist(newData), called from a closure that holds `key` as aesKey, up to
\* its await: the suspended calls afterwards.  It returns at once when
\* nothing is stored or the closure holds no key.
PersistStart(ops, newData, key, raw, k) ==
    LET state == loadState(raw)
    IN  IF state = Null \/ key = NoKey THEN ops
        ELSE ops \cup {[state |-> state,
                        enc |-> encryptJson(newData, key, randBytes(IV_LEN, k))]}

\* the IV that call of persist encrypts with, if it gets to encrypt
PersistIvs(newData, key, raw, k) ==
    IF loadState(raw) = Null \/ key = NoKey THEN << >>
    ELSE << encryptJson(newData, key, randBytes(IV_LEN, k)).iv >>

\* the number of IVs that call of persist draws
PersistDraws(key, raw) ==
    IF loadState(raw) = Null \/ key = NoKey THEN 0 ELSE 1

\* what persist would save, had it not stored the new enc.ciphertext
PersistedState_KeepCiphertext(op) ==
    [op.state EXCEPT !.enc.ivB64 = op.enc.iv]

\* what persist would save, had it not stored the new enc.iv
PersistedState_KeepIv(op) ==
    [op.state EXCEPT !.enc.ciphertextB64 = op.enc.ciphertext]

\* what persist saves after its await: the state it loaded, with the new
\* enc.iv and enc.ciphertext
PersistedState(op) ==
    [op.state EXCEPT !.enc.ivB64 = op.enc.iv,
                     !.enc.ciphertextB64 = op.enc.ciphertext]

\* persist after its await
PersistFinish(op) ==
    /\ store' = saveState(PersistedState(op))
    /\ pending' = pending \ {op}
    /\ UNCHANGED <<rng, setups, setupErr, setupInput, ivLog>>
    /\ UNCHANGED appVars
    /\ UNCHANGED loginVars

\* the generator may still hand out what a handler draws (`drawn`) and what
\* the call of persist it makes draws
PersistRoom(key, raw, drawn) ==
    rng + drawn + PersistDraws(key, raw) <= setups * SetupDraws + MaxDraws

-----------------------------------------------------------------------------
(* LoginScreen *)

\* typing into the password field (shown at step 1)
SetPassword(p) ==
    /\ boot = "login"
    /\ lsStep = 1
    /\ p # lsPassword
    /\ lsPassword' = p
    /\ Rerender
    /\ UNCHANGED <<store, rng, setups, setupErr, pending, setupInput, ivLog>>
    /\ UNCHANGED <<lsStep, lsAnswers, lsErr, lsVerified>>
    /\ UNCHANGED appVars

\* typing into the answer fields (shown at step 2)
SetAnswers(script) ==
    /\ boot = "login"
    /\ lsStep = 2
    /\ lsAnswers' = TypeAnswers(lsAnswers, QasOf(lsState), script, 1)
    /\ lsAnswers' # lsAnswers
    /\ Rerender
    /\ UNCHANGED <<store, rng, setups, setupErr, pending, setupInput, ivLog>>
    /\ UNCHANGED <<lsPassword, lsStep, lsErr, lsVerified>>
    /\ UNCHANGED appVars

\* the Back button of step 2
Back ==
    /\ boot = "login"
    /\ lsStep = 2
    /\ lsStep' = 1
    /\ Rerender
    /\ UNCHANGED <<store, rng, setups, setupErr, pending, setupInput, ivLog>>
    /\ UNCHANGED <<lsPassword, lsAnswers, lsErr, lsVerified>>
    /\ UNCHANGED appVars

\* verifyPassword's comparison, had it accepted any password
VerifierMatches_AnyPassword(password, state) ==
    state.auth.verifierHex = state.auth.verifierHex

\* verifyPassword: the comparison of the recomputed verifier with the stored one
VerifierMatches(password, state) ==
    toHex(pbkdf2(password, fromHex(state.auth.saltPwdHex), ITERATIONS, KEY_LEN))
        = state.auth.verifierHex

\* the outcome of verifyPassword, had it gone to step 2 without comparing
VerifyPasswordOutcome_Unchecked(password, state) ==
    IF state = Null THEN "error" ELSE "step2"

\* the outcome of verifyPassword: "error" when reading the state throws,
\* "invalid" when the verifier differs, "step2" otherwise
VerifyPasswordOutcome(password, state) ==
    IF state = Null THEN "error"
    ELSE IF ~VerifierMatches(password, state) THEN "invalid"
    ELSE "step2"

\* the message verifyPassword shows for an outcome
VerifyPasswordError(outcome) ==
    IF outcome = "error" THEN "Something went wrong."
    ELSE IF outcome = "invalid" THEN "Invalid password."
    ELSE ""

\* verifyPassword, the Continue button of step 1
VerifyPassword ==
    /\ boot = "login"
    /\ lsStep = 1
    /\ LET outcome == VerifyPasswordOutcome(lsPassword, lsState)
       IN  /\ lsErr' = VerifyPasswordError(outcome)
           /\ lsStep' = IF outcome = "step2" THEN 2 ELSE lsStep
           /\ lsVerified' = IF outcome = "step2"
                            THEN [password |-> lsPassword,
                                  verifierHex |-> lsState.auth.verifierHex]
                            ELSE lsVerified
    /\ Rerender
    /\ UNCHANGED <<store, rng, setups, setupErr, pending, setupInput, ivLog>>
    /\ UNCHANGED <<lsPassword, lsAnswers>>
    /\ UNCHANGED appVars

\* the loop of verifyQuestions, had one matching answer been enough
AnswersMatch_AnyOne(answers, qas) ==
    \E i \in 1..Len(qas) :
        hashAnswer(answers[qas[i].q], b64decode(qas[i].saltB64)) = qas[i].hashB64

\* the loop of verifyQuestions: every given answer hashes to the stored hash
AnswersMatch(answers, qas) ==
    \A i \in 1..Len(qas) :
        hashAnswer(answers[qas[i].q], b64decode(qas[i].saltB64)) = qas[i].hashB64

\* the outcome of verifyQuestions, had only a wrong first answer been
\* reported as a wrong answer
VerifyQuestionsOutcome_FirstRowOnly(password, answers, state) ==
    LET qas == QasOf(state)
    IN  IF qas # << >> /\ ~AnswersMatch(answers, << qas[1] >>) THEN "answers"
        ELSE IF state = Null \/ ~AnswersMatch(answers, qas) THEN "decrypt"
        ELSE LET key == getAesKeyFromPassword(password, fromHex(state.enc.saltEncHex))
             IN  IF DecryptOk(state.enc.ciphertextB64, state.enc.ivB64, key)
                 THEN "unlock" ELSE "decrypt"

\* the outcome of verifyQuestions, had decryption not verified the tag
VerifyQuestionsOutcome_NoTag(password, answers, state) ==
    IF ~AnswersMatch(answers, QasOf(state)) THEN "answers"
    ELSE IF state = Null THEN "decrypt"
    ELSE "unlock"

\* the outcome of verifyQuestions: "answers" when an answer is incorrect,
\* "decrypt" when something throws, "unlock" when onUnlock is called
VerifyQuestionsOutcome(password, answers, state) ==
    IF ~AnswersMatch(answers, QasOf(state)) THEN "answers"
    ELSE IF state = Null THEN "decrypt"
    ELSE LET key == getAesKeyFromPassword(password, fromHex(state.enc.saltEncHex))
         IN  IF DecryptOk(state.enc.ciphertextB64, state.enc.ivB64, key)
             THEN "unlock" ELSE "decrypt"

\* the message verifyQuestions shows for an outcome
VerifyQuestionsError(outcome) ==
    IF outcome = "answers" THEN "One or more answers are incorrect."
    ELSE IF outcome = "decrypt" THEN "Failed to decrypt."
    ELSE ""

\* whether verifyQuestions gets as far as calling getAesKeyFromPassword
DerivesKey(outcome, state) == outcome # "answers" /\ state # Null

\* verifyQuestions, the Unlock button of step 2; on success it calls
\* onUnlock({ key, data }): setAesKey, setFirstName, setData(normalized),
\* setBoot('app'), persist(normalized) with the aesKey of the render on screen
VerifyQuestions ==
    /\ boot = "login"
    /\ lsStep = 2
    /\ LET outcome == VerifyQuestionsOutcome(lsPassword, lsAnswers, lsState)
           key == getAesKeyFromPassword(lsPassword, fromHex(lsState.enc.saltEncHex))
           normalized == Normalize(decryptJson(lsState.enc.ciphertextB64,
                                               lsState.enc.ivB64, key))
           state == loadState(store)
       IN  IF outcome = "unlock"
              THEN /\ PersistRoom(aesKey, store, 0)
                   /\ aesKey' = key
                   /\ firstName' = (IF state = Null THEN "" ELSE state.user.firstName)
                   /\ data' = normalized
                   /\ boot' = "app"
                   /\ NoLogin
                   /\ pending' = PersistStart(pending, normalized, aesKey, store, rng)
                   /\ rng' = rng + PersistDraws(aesKey, store)
                   /\ ivLog' = ivLog \o PersistIvs(normalized, aesKey, store, rng)
              ELSE /\ lsErr' = VerifyQuestionsError(outcome)
                   /\ Rerender
                   /\ UNCHANGED <<rng, pending, lsPassword, lsStep, lsAnswers,
                                  lsVerified, ivLog>>
                   /\ UNCHANGED appVars
    /\ UNCHANGED <<store, setups, setupErr, setupInput>>

-----------------------------------------------------------------------------
(* App: mutations, logout, reset *)

CategoryNames == {"Cash"}

\* the category the Sidebar builds: { id: newId(), name, amount, currency, remarks }
NewCategory(name, k) ==
    [id |-> newId(k), name |-> name, amount |-> 1000, currency |-> "BDT", remarks |-> ""]

\* the updater of onAddCategory: { ...prev, categories: [...prev.categories, cat] }
AddCategoryTo(prev, cat) == [prev EXCEPT !.categories = Append(@, cat)]

\* the Add Category button of the Sidebar: onAddCategory(cat), whose updater
\* calls persist(nd)
AddCategory(name) ==
    /\ boot = "app"
    /\ PersistRoom(aesKey, store, 1)
    /\ LET nd == AddCategoryTo(data, NewCategory(name, rng))
       IN  /\ data' = nd
           /\ pending' = PersistStart(pending, nd, aesKey, store, rng + 1)
           /\ ivLog' = ivLog \o PersistIvs(nd, aesKey, store, rng + 1)
    /\ rng' = rng + 1 + PersistDraws(aesKey, store)
    /\ UNCHANGED <<store, setups, boot, firstName, aesKey, setupErr, setupInput>>
    /\ UNCHANGED loginVars

\* onLogout, had it not called setAesKey(null)
Logout_KeepsKey ==
    /\ boot = "app"
    /\ aesKey' = aesKey
    /\ data' = InitialData
    /\ boot' = "login"
    /\ MountLogin(store)
    /\ UNCHANGED <<store, rng, setups, firstName, setupErr, pending, setupInput, ivLog>>

\* onLogout
Logout ==
    /\ boot = "app"
    /\ aesKey' = NoKey
    /\ data' = InitialData
    /\ boot' = "login"
    /\ MountLogin(store)
    /\ UNCHANGED <<store, rng, setups, firstName, setupErr, pending, setupInput, ivLog>>

\* onReset is offered by LoginScreen at step 1 and by the Settings tab
ResetOffered == (boot = "login" /\ lsStep = 1) \/ boot = "app"

\* onReset, with what the user answers to confirm()
Reset(ok) ==
    /\ ResetOffered
    /\ IF ok
       THEN /\ store' = clearState
            /\ boot' = "setup"
            /\ setupErr' = ""
            /\ NoLogin
       ELSE /\ UNCHANGED <<store, boot, setupErr>>
            /\ UNCHANGED loginVars
    /\ UNCHANGED <<rng, setups, firstName, aesKey, data, pending, setupInput, ivLog>>

-----------------------------------------------------------------------------
(* The session *)

Next ==
    \/ Boot
    \/ Reload
    \/ \E fn \in FirstNames, pw \in SetupPasswords, cf \in Passwords, qas \in SetupQAs :
          HandleSetup(fn, pw, cf, qas)
    \/ \E p \in Passwords : SetPassword(p)
    \/ VerifyPassword
    \/ \E script \in AnswerScripts : SetAnswers(script)
    \/ Back
    \/ VerifyQuestions
    \/ \E name \in CategoryNames : AddCategory(name)
    \/ \E op \in pending : PersistFinish(op)
    \/ Logout
    \/ \E ok \in BOOLEAN : Reset(ok)

Spec == Init /\ [][Next]_vars

-----------------------------------------------------------------------------
(* The session on a store that may refuse a write *)

\* a failed write of persist, had the handler rolled the in-memory payload
\* back to the payload of the record persist had loaded
PersistWriteThrows_RollsBack(op) ==
    /\ pending' = pending \ {op}
    /\ data' = JsonParse(b64decode(op.state.enc.ciphertextB64).plaintext)
    /\ UNCHANGED <<store, rng, setups, setupErr, setupInput, ivLog>>
    /\ UNCHANGED <<boot, firstName, aesKey>>
    /\ UNCHANGED loginVars

\* persist after its await, when localStorage.setItem throws in saveState (the
\* quota is exceeded, storage is disabled): the promise of persist rejects,
\* and no caller awaits or catches it
PersistWriteThrows(op) ==
    /\ pending' = pending \ {op}
    /\ UNCHANGED <<store, rng, setups, setupErr, setupInput, ivLog>>
    /\ UNCHANGED appVars
    /\ UNCHANGED loginVars

NextStorage ==
    \/ Next
    \/ \E op \in pending : PersistWriteThrows(op)

SpecStorage == Init /\ [][NextStorage]_vars

-----------------------------------------------------------------------------
(* What the stored terms were computed from, and what is on screen *)

\* the password a verifier was computed from
PasswordOfVerifier(verifierHex) == fromHex(verifierHex).password

\* the normalised answer the stored hash of a row was computed from
AnswerOfHash(qa) == b64decode(qa.hashB64).of.text

\* the answer given for row i of the login form is the one row i was set up with
GivenIsStored(i) ==
    LET qa == QasOf(lsState)[i]
    IN  ToLowerCase(Trim(lsAnswers[qa.q])) = AnswerOfHash(qa)

AllGivenAreStored == \A i \in 1..Len(QasOf(lsState)) : GivenIsStored(i)

\* the password on screen has been verified, in this login attempt, against
\* the verifier the screen had read from the store
PasswordVerified ==
    /\ lsVerified # Null
    /\ lsVerified.password = lsPassword
    /\ PasswordOfVerifier(lsVerified.verifierHex) = lsPassword

\* the key verifyQuestions would derive from what is on screen
LoginKey == getAesKeyFromPassword(lsPassword, fromHex(lsState.enc.saltEncHex))

\* the stored record, and whether it decrypts under `key` to payload `d`
Stored == loadState(store)
StoreDecryptsTo(key, d) ==
    /\ Stored # Null
    /\ DecryptOk(Stored.enc.ciphertextB64, Stored.enc.ivB64, key)
    /\ decryptJson(Stored.enc.ciphertextB64, Stored.enc.ivB64, key) = d

\* the store holds the record the last Setup saved: no persist has written since
StoreIsOfSetup ==
    /\ setupInput # Null
    /\ Stored # Null
    /\ Stored.enc.ivB64 = setupInput.ivB64

\* the five answers entered at the last Setup, top to bottom
SetupAnswers == [i \in Rows |-> setupInput.qas[i].a]

\* the Setup form as filled in is one the specification calls invalid
InvalidSetup(fn, pw, cf, qas) ==
    \/ fn = "" \/ pw = "" \/ cf = ""
    \/ pw # cf
    \/ \E i \in Rows : qas[i].q = "" \/ qas[i].a = NoAnswer

-----------------------------------------------------------------------------
(* Claims *)

\* C1: after a successful Setup (question texts not necessarily distinct),
\* verifyPassword with the Setup password moves to step 2, and verifyQuestions
\* with the five Setup answers typed into the five fields unlocks with the
\* initial payload.
C1_SetupThenLoginUnlocks ==
    [][ /\ ( /\ VerifyPassword
             /\ StoreIsOfSetup
             /\ lsState = Stored
             /\ lsPassword = setupInput.password )
           => lsStep' = 2
        /\ ( /\ VerifyQuestions
             /\ StoreIsOfSetup
             /\ lsState = Stored
             /\ lsPassword = setupInput.password
             /\ lsAnswers = TypeAnswers(EmptyAnswers, QasOf(lsState), SetupAnswers, 1) )
           => (boot' = "app" /\ data' = InitialData) ]_vars

\* C2: a key is derived, and the session unlocked, only at step 2 of a login
\* attempt whose password has been verified against the verifier and whose
\* answers are all the stored ones; step 2 is never on screen with a
\* password that is not the verifier's.
C2_KeyOnlyAfterBothChecks ==
    [][ /\ ( \/ boot # "app" /\ boot' = "app"
             \/ aesKey' # aesKey /\ aesKey' # NoKey
             \/ /\ VerifyQuestions
                /\ DerivesKey(VerifyQuestionsOutcome(lsPassword, lsAnswers, lsState),
                              lsState) )
           => ( /\ boot = "login" /\ lsStep = 2
                /\ PasswordVerified
                /\ AllGivenAreStored
                /\ aesKey' \in {aesKey, LoginKey} )
        /\ (boot' = "login" /\ lsStep' = 2) => PasswordVerified' ]_vars

C2_Witness ==
    /\ boot = "app"
    /\ Stored # Null
    /\ aesKey = getAesKeyFromPassword(setupInput.password,
                                      fromHex(Stored.enc.saltEncHex))
    /\ data = InitialData

\* C3: once every call of persist has completed, the stored record decrypts
\* under the session key to the in-memory payload.
C3_StoreIsMemoryWhenPersisted ==
    (boot = "app" /\ pending = {} /\ Stored # Null) => StoreDecryptsTo(aesKey, data)

\* C4: while the session is SetupRequired the store holds no record.
C4_NoRecordWhileSetupRequired ==
    boot = "setup" => Stored = Null

\* C5: adding a category while unlocked starts a persist of a state whose
\* payload decrypts to one containing that category and whose enc.iv differs
\* from the stored one; when that persist completes, the store holds that
\* state, under an IV that differs from the one stored before.
C5_AddCategoryPersisted ==
    [][ /\ \A name \in CategoryNames :
             (AddCategory(name) /\ aesKey # NoKey /\ Stored # Null) =>
                \E op \in pending' \ pending :
                    LET st == PersistedState(op)
                        cat == NewCategory(name, rng)
                    IN  /\ DecryptOk(st.enc.ciphertextB64, st.enc.ivB64, aesKey)
                        /\ LET d == decryptJson(st.enc.ciphertextB64, st.enc.ivB64,
                                                aesKey)
                           IN  /\ d = data'
                               /\ \E i \in 1..Len(d.categories) : d.categories[i] = cat
                        /\ st.enc.ivB64 # Stored.enc.ivB64
        /\ \A op \in pending :
             (PersistFinish(op) /\ Stored # Null) =>
                /\ Stored'.enc.ciphertextB64 = op.enc.ciphertext
                /\ Stored'.enc.ivB64 = op.enc.iv
                /\ Stored'.enc.ivB64 # Stored.enc.ivB64 ]_vars

C5_Witness ==
    /\ boot = "app"
    /\ pending = {}
    /\ Len(data.categories) = 1
    /\ data.categories[1].name = "Cash"
    /\ StoreDecryptsTo(aesKey, data)
    /\ Stored.enc.ivB64 # setupInput.ivB64

\* C6: every encryption uses a 12-byte IV that no earlier encryption used.
C6_IvNeverReused ==
    /\ \A i \in 1..Len(ivLog) : b64decode(ivLog[i]).len = IV_LEN
    /\ \A i, j \in 1..Len(ivLog) : i # j => ivLog[i] # ivLog[j]

C6_Witness ==
    /\ Len(ivLog) >= 3
    /\ Stored # Null
    /\ \E op \in pending :
          b64decode(op.enc.ciphertext).key = b64decode(Stored.enc.ciphertextB64).key

\* C7: verifyPassword moves to step 2 iff the password typed is the one the
\* verifier was computed from; otherwise the screen stays at step 1 and shows
\* "Invalid password."; the store, the key and the payload do not change.
C7_VerifyPasswordDiscriminates ==
    [][ (VerifyPassword /\ lsState # Null) =>
           /\ (lsStep' = 2) <=> (lsPassword = PasswordOfVerifier(lsState.auth.verifierHex))
           /\ lsPassword # PasswordOfVerifier(lsState.auth.verifierHex) =>
                 (lsStep' = 1 /\ lsErr' = "Invalid password." /\ boot' = "login")
           /\ UNCHANGED <<store, aesKey, data>> ]_vars

C7_Witness ==
    /\ boot = "login"
    /\ lsStep = 1
    /\ lsPassword = "wrongpw"
    /\ lsErr = "Invalid password."
    /\ PasswordOfVerifier(lsState.auth.verifierHex) = "pw1234"

\* C8: verifyQuestions with at least one answer that is not the stored one
\* stays at step 2 and locked, derives no key, shows "One or more answers are
\* incorrect." and changes neither store nor payload.
C8_OneWrongAnswerFails ==
    [][ (VerifyQuestions /\ lsState # Null /\ ~AllGivenAreStored) =>
           /\ lsStep' = 2
           /\ boot' = "login"
           /\ aesKey' = aesKey
           /\ ~DerivesKey(VerifyQuestionsOutcome(lsPassword, lsAnswers, lsState), lsState)
           /\ lsErr' = "One or more answers are incorrect."
           /\ UNCHANGED <<store, data, pending>> ]_vars

C8_Witness ==
    /\ boot = "login"
    /\ lsStep = 2
    /\ lsErr = "One or more answers are incorrect."
    /\ Cardinality({i \in 1..Len(QasOf(lsState)) : ~GivenIsStored(i)}) = 1
    /\ ~GivenIsStored(NUM_QAS)

\* C9: verifyQuestions with the stored answers, when the stored ciphertext
\* does not decrypt under the key derived from the password, shows "Failed
\* to decrypt.", stays on the login screen, and changes neither key, payload,
\* first name nor store.
C9_DecryptFailureStaysLocked ==
    [][ ( /\ VerifyQuestions
          /\ lsState # Null
          /\ AllGivenAreStored
          /\ ~DecryptOk(lsState.enc.ciphertextB64, lsState.enc.ivB64, LoginKey) )
        => ( /\ lsErr' = "Failed to decrypt."
             /\ boot' = "login"
             /\ lsStep' = 2
             /\ UNCHANGED <<aesKey, data, firstName, store, pending>> ) ]_vars

C9_Witness ==
    /\ boot = "login"
    /\ lsStep = 2
    /\ lsErr = "Failed to decrypt."
    /\ lsState = Stored
    /\ aesKey = NoKey
    /\ data = InitialData

\* C10: handleSetup on an invalid form (an empty first name, password or
\* confirmation, password and confirmation that differ, an empty question or
\* answer) shows an error, writes nothing and stays on the Setup screen (a
\* step from the Setup screen either does exactly that, or is not handleSetup
\* on an invalid form); no record is ever stored whose verifier was computed
\* from the empty password.
C10_InvalidSetupChangesNothing ==
    [][ /\ boot = "setup" =>
             \/ /\ setupErr' # ""
                /\ boot' = "setup"
                /\ UNCHANGED <<store, rng, aesKey, data, firstName, pending>>
             \/ \A fn \in FirstNames, pw \in SetupPasswords, cf \in Passwords,
                   qas \in SetupQAs :
                   InvalidSetup(fn, pw, cf, qas) => ~HandleSetup(fn, pw, cf, qas)
        /\ Stored' # Null => PasswordOfVerifier(Stored'.auth.verifierHex) # "" ]_vars

C10_Witness ==
    /\ boot = "setup"
    /\ setupErr = "Passwords do not match."
    /\ Stored = Null
    /\ setups = 0

\* C11: a successful Setup stores one record: version 1, the first name, the
\* verifier of the password under saltPwd, five Q&A rows each with its own
\* salt and the hash of its answer under that salt, and the encryption of the
\* initial payload under the key derived from the password with saltEnc; the
\* login screen is then at step 1.  Every stored record has five Q&A rows.
C11_SetupRecord ==
    [][ /\ (boot = "setup" /\ boot' = "login") =>
             \A fn \in FirstNames, pw \in SetupPasswords, cf \in Passwords,
                qas \in SetupQAs :
                HandleSetup(fn, pw, cf, qas) =>
                   LET st == Stored'
                       rows == st.auth.qas
                       cipher == b64decode(st.enc.ciphertextB64)
                   IN  /\ store'.item = "json"
                       /\ st.version = 1
                       /\ st.user.firstName = fn
                       /\ PasswordOfVerifier(st.auth.verifierHex) = pw
                       /\ fromHex(st.auth.verifierHex).salt = fromHex(st.auth.saltPwdHex)
                       /\ Len(rows) = 5
                       /\ \A i \in 1..5 :
                             /\ rows[i].q = qas[i].q
                             /\ AnswerOfHash(rows[i]) = ToLowerCase(Trim(qas[i].a))
                             /\ b64decode(rows[i].hashB64).of.tail
                                   = b64decode(rows[i].saltB64)
                       /\ \A i, j \in 1..5 : i # j => rows[i].saltB64 # rows[j].saltB64
                       /\ cipher.plaintext = JsonStringify(InitialData)
                       /\ cipher.key = getAesKeyFromPassword(pw, fromHex(st.enc.saltEncHex))
                       /\ cipher.iv = b64decode(st.enc.ivB64)
                       /\ lsStep' = 1
                       /\ lsPassword' = ""
        /\ Stored' # Null => Len(Stored'.auth.qas) = 5 ]_vars

C11_Witness ==
    /\ boot = "login"
    /\ lsStep = 1
    /\ lsPassword = ""
    /\ lsErr = ""
    /\ setups = 1
    /\ StoreIsOfSetup
    /\ lsState = Stored

\* C12: the boot effect leaves the store as it is; with no item or an item
\* that is not JSON it shows the Setup screen and no error, with a record it
\* shows the login screen at step 1.
C12_BootByStore ==
    [][ (boot = "loading" /\ boot' # "loading") =>
           /\ store' = store
           /\ store.item # "json" =>
                 (boot' = "setup" /\ setupErr' = "" /\ lsErr' = "")
           /\ store.item = "json" =>
                 (boot' = "login" /\ lsStep' = 1 /\ lsPassword' = "" /\ lsErr' = "") ]_vars

C12_Witness ==
    /\ boot = "setup"
    /\ store = GarbageItem
    /\ setupErr = ""

\* C13: logging out of the app sets the key to null and the payload to the
\* empty default, shows the login screen at step 1 with no password and no
\* answers, and leaves the store as it is.
C13_LogoutDiscards ==
    [][ (boot = "app" /\ boot' = "login") =>
           /\ aesKey' = NoKey
           /\ data' = InitialData
           /\ lsStep' = 1
           /\ lsPassword' = ""
           /\ lsAnswers' = EmptyAnswers
           /\ store' = store ]_vars

C13_Witness ==
    /\ boot = "login"
    /\ aesKey = NoKey
    /\ data = InitialData
    /\ pending # {}
    /\ lsStep = 1
    /\ lsPassword = ""

\* C14: while the store holds a record, no step changes its version, user,
\* auth (saltPwd, verifier, the five Q&A rows) or enc.saltEnc: only a Reset,
\* which removes the record, ends them.
C14_AuthImmutable ==
    [][ (Stored # Null /\ Stored' # Null) =>
           /\ Stored'.version = Stored.version
           /\ Stored'.user = Stored.user
           /\ Stored'.auth = Stored.auth
           /\ Stored'.enc.saltEncHex = Stored.enc.saltEncHex ]_vars

\* C15: in every stored record, enc.ciphertext is the output of the
\* encryption that used enc.iv.
C15_IvAndCiphertextTogether ==
    Stored # Null =>
        LET cipher == b64decode(Stored.enc.ciphertextB64)
        IN  /\ cipher.alg = "AES-GCM"
            /\ cipher.iv = b64decode(Stored.enc.ivB64)

C15_Witness ==
    /\ Stored # Null
    /\ setupInput # Null
    /\ Stored.enc.ivB64 # setupInput.ivB64
    /\ Stored.enc.ivB64 = ivLog[Len(ivLog)]
    /\ Len(ivLog) >= 3

\* C16: a stored record holds only the version, the first name, salts, the
\* PBKDF2 verifier, question texts with salt and SHA-256 hash, the IV and the
\* AES-GCM ciphertext: no field holds the password, an answer or the payload.
C16_NoPlaintextStored ==
    Stored # Null =>
        /\ DOMAIN Stored = {"version", "user", "auth", "enc"}
        /\ DOMAIN Stored.user = {"firstName"}
        /\ DOMAIN Stored.auth = {"saltPwdHex", "verifierHex", "qas"}
        /\ DOMAIN Stored.enc = {"saltEncHex", "ivB64", "ciphertextB64"}
        /\ DOMAIN fromHex(Stored.auth.saltPwdHex) = {"rand", "len"}
        /\ DOMAIN fromHex(Stored.enc.saltEncHex) = {"rand", "len"}
        /\ DOMAIN b64decode(Stored.enc.ivB64) = {"rand", "len"}
        /\ fromHex(Stored.auth.verifierHex).alg = "PBKDF2"
        /\ b64decode(Stored.enc.ciphertextB64).alg = "AES-GCM"
        /\ \A i \in 1..Len(Stored.auth.qas) :
              LET row == Stored.auth.qas[i]
              IN  /\ DOMAIN row = {"q", "saltB64", "hashB64"}
                  /\ row.q \in QTexts
                  /\ DOMAIN b64decode(row.saltB64) = {"rand", "len"}
                  /\ b64decode(row.hashB64).alg = "SHA-256"

C16_Witness ==
    /\ Stored # Null
    /\ boot = "login"
    /\ aesKey = NoKey
    /\ Len(JsonParse(b64decode(Stored.enc.ciphertextB64).plaintext).categories) = 1

\* C17: a persist that does not write the record reports its failure: when
\* the write throws, an error is shown on the screen that is up.
C17_PersistFailureReported ==
    [][ \A op \in pending :
           PersistWriteThrows(op) => <<setupErr, lsErr>>' # <<setupErr, lsErr>> ]_vars

\* C18: the error verifyPassword shows for a wrong password is the error
\* verifyQuestions shows for a wrong answer set.
C18_SameErrorForBothFactors ==
    [][ ( /\ VerifyPassword
          /\ lsState # Null
          /\ lsPassword # PasswordOfVerifier(lsState.auth.verifierHex) )
        => lsErr' = VerifyQuestionsError("answers") ]_vars

\* answer sets to compare: every way of typing Blue or Red into the five fields
ProbeScripts == [Rows -> {Blue, Red}]
AllRed == [i \in Rows |-> Red]

\* the answers on screen after typing `script` into the five fields
Typed(script) == TypeAnswers(lsAnswers, QasOf(lsState), script, 1)

\* some row of the login form would not get the answer it was set up with
SomeRowWrong(answers) ==
    \E i \in 1..Len(QasOf(lsState)) :
        LET qa == QasOf(lsState)[i]
        IN  ToLowerCase(Trim(answers[qa.q])) # AnswerOfHash(qa)

\* C19: at step 2, any two answer sets that each have a wrong answer get the
\* same outcome and the same error from verifyQuestions, whichever rows are
\* wrong and however many (each gets what the all-wrong set gets).
C19_FailureHidesWhichRow ==
    (boot = "login" /\ lsStep = 2 /\ lsState # Null) =>
        \A script \in ProbeScripts :
            SomeRowWrong(Typed(script)) =>
                LET got == VerifyQuestionsOutcome(lsPassword, Typed(script), lsState)
                    ref == VerifyQuestionsOutcome(lsPassword, Typed(AllRed), lsState)
                IN  /\ SomeRowWrong(Typed(AllRed))
                    /\ got = ref
                    /\ VerifyQuestionsError(got) = VerifyQuestionsError(ref)
                    /\ ~DerivesKey(got, lsState)

C19_Witness ==
    /\ boot = "login"
    /\ lsStep = 2
    /\ lsErr = "One or more answers are incorrect."
    /\ ~GivenIsStored(2)
    /\ Cardinality({i \in 1..Len(QasOf(lsState)) : ~GivenIsStored(i)}) >= 2

\* C20: a mutation in the app that changes the categories or the entries of
\* the payload appends one record to its history.
C20_StructuralChangeLogged ==
    [][ ( /\ boot = "app" /\ boot' = "app"
          /\ \/ data'.categories # data.categories
             \/ data'.entries # data.entries )
        => Len(data'.history) = Len(data.history) + 1 ]_vars

-----------------------------------------------------------------------------
(* The session state machine *)

\* the state of the session: what App renders (render switch), and the step
\* LoginScreen is at while it is on screen
SessionState == <<boot, IF boot = "login" THEN lsStep ELSE 0>>

Loading == <<"loading", 0>>
SetupRequired == <<"setup", 0>>
LoggingIn(step) == <<"login", step>>
Unlocked == <<"app", 0>>

\* C21: the session state changes only from Loading to SetupRequired or to
\* LoggingIn step 1, from SetupRequired to LoggingIn step 1, from LoggingIn
\* step 1 to step 2, from step 2 to Unlocked, from Unlocked to LoggingIn
\* step 1 and from Unlocked to SetupRequired (a page load starts a new session
\* at Loading).
C21_OnlyListedTransitions ==
    [][ SessionState' # SessionState =>
          \/ SessionState' = Loading
          \/ SessionState = Loading /\ SessionState' \in {SetupRequired, LoggingIn(1)}
          \/ SessionState = SetupRequired /\ SessionState' = LoggingIn(1)
          \/ SessionState = LoggingIn(1) /\ SessionState' = LoggingIn(2)
          \/ SessionState = LoggingIn(2) /\ SessionState' = Unlocked
          \/ SessionState = Unlocked /\ SessionState' \in {LoggingIn(1), SetupRequired} ]_vars

\* C26: whenever a record is stored and no persist is in flight, the stored
\* ciphertext decrypts under the key derived from the password of the most
\* recent successful Setup and the stored saltEnc.
C26_StoredVaultUnlocks ==
    (Stored # Null /\ pending = {} /\ setupInput # Null) =>
        DecryptOk(Stored.enc.ciphertextB64, Stored.enc.ivB64,
                  getAesKeyFromPassword(setupInput.password,
                                        fromHex(Stored.enc.saltEncHex)))

\* C27: whenever the session is not Unlocked, App holds no key and the empty
\* default payload.
C27_LockedHoldsNothing ==
    SessionState # Unlocked => (aesKey = NoKey /\ data = InitialData)

\* C28: once Logout has been issued, and until the next unlock, the stored
\* record does not change.
C28_NoWriteAfterLogout ==
    [][ (boot = "login" /\ aesKey = NoKey /\ boot' = "login") => store' = store ]_vars

-----------------------------------------------------------------------------
(* Mutations and their persists *)

\* the payload text a ciphertext was computed from
PlaintextOf(ciphertextB64) == b64decode(ciphertextB64).plaintext

\* C23: a mutation changes the in-memory payload and leaves the store as it
\* is, and the persist it starts encrypts the whole new in-memory payload; a
\* persist whose write fails changes neither the in-memory payload nor the
\* store; a persist whose write succeeds stores the payload it encrypted.
C23_OptimisticNoRollback ==
    [][ /\ (boot = "app" /\ boot' = "app" /\ data' # data) =>
              /\ store' = store
              /\ pending' # pending
              /\ \A op \in pending' \ pending :
                    PlaintextOf(op.enc.ciphertext) = JsonStringify(data')
        /\ \A op \in pending :
              /\ PersistWriteThrows(op) => (data' = data /\ store' = store)
              /\ PersistFinish(op) =>
                    /\ data' = data
                    /\ PlaintextOf(Stored'.enc.ciphertextB64)
                          = PlaintextOf(op.enc.ciphertext) ]_vars

\* the first category's persist has failed (the store still holds the record
\* of Setup), and the persist of the second category is about to write the
\* payload with both
C23_Witness ==
    /\ boot = "app"
    /\ Len(data.categories) = 2
    /\ StoreIsOfSetup
    /\ Cardinality(pending) = 1
    /\ \A op \in pending : PlaintextOf(op.enc.ciphertext) = JsonStringify(data)

-----------------------------------------------------------------------------
(* Answers as typed *)

\* answers as a user may type them
TypedAnswers == {NoAnswer, Blue, BlueTyped, Red}

\* the pairs of different typed answers with the same trimmed, lower-cased form
AlikeAnswers ==
    {p \in TypedAnswers \X TypedAnswers :
        p[1] # p[2] /\ ToLowerCase(Trim(p[1])) = ToLowerCase(Trim(p[2]))}

\* C24: two answers with the same trimmed, lower-cased form have the same
\* hash under the salt of every stored row, and at step 2 an answer set that
\* differs from the answers of Setup only in case and surrounding whitespace
\* matches the stored hashes.
C24_AnswersNormalised ==
    (boot = "login" /\ lsStep = 2 /\ lsState # Null) =>
        /\ \A p \in AlikeAnswers, i \in 1..Len(QasOf(lsState)) :
              LET salt == b64decode(QasOf(lsState)[i].saltB64)
              IN  hashAnswer(p[1], salt) = hashAnswer(p[2], salt)
        /\ AllGivenAreStored => AnswersMatch(lsAnswers, QasOf(lsState))

\* the first answer is on screen with other case and surrounding spaces than
\* it was set up with, and the answer set matches
C24_Witness ==
    /\ boot = "login"
    /\ lsStep = 2
    /\ lsState # Null
    /\ lsAnswers[QasOf(lsState)[1].q] = BlueTyped
    /\ AnswerOfHash(QasOf(lsState)[1]) # BlueTyped
    /\ AllGivenAreStored
    /\ AnswersMatch(lsAnswers, QasOf(lsState))

-----------------------------------------------------------------------------
(* The work verifyQuestions does before it rejects *)

\* the loop of verifyQuestions from row i on: the number of answers it hashes
\* and compares; it returns at the first row whose hash differs
RECURSIVE HashesComputed(_, _, _)
HashesComputed(answers, qas, i) ==
    IF i > Len(qas) THEN 0
    ELSE IF hashAnswer(answers[qas[i].q], b64decode(qas[i].saltB64)) # qas[i].hashB64
         THEN 1
         ELSE 1 + HashesComputed(answers, qas, i + 1)

\* C25: at step 2, rejecting an answer set takes the same work whichever
\* answer is wrong: every answer set with a wrong answer has as many answers
\* hashed and compared as the set with every answer wrong.
C25_RejectionWorkIsUniform ==
    (boot = "login" /\ lsStep = 2 /\ lsState # Null) =>
        \A script \in ProbeScripts :
            SomeRowWrong(Typed(script)) =>
                HashesComputed(Typed(script), QasOf(lsState), 1)
                    = HashesComputed(Typed(AllRed), QasOf(lsState), 1)

-----------------------------------------------------------------------------
(* A second session on the same store *)

\* Another tab of the same browser runs the same App on the same
\* localStorage item.  It has unlocked the vault while the store held the
\* record of Setup, so it holds the key of the stored vault and the payload of
\* Setup; the model follows the writes it makes while this session is unlocked
\* too.
OtherTabPassword == "pw1234"
OtherTabCategoryName == "Bank"

\* the key the other tab derived when it unlocked the vault of record `state`
OtherTabKey(state) ==
    getAesKeyFromPassword(OtherTabPassword, fromHex(state.enc.saltEncHex))

\* the payload of the other tab, had its mutation started from the payload
\* stored at the time of the write instead of its own in-memory payload
OtherTabPayload_Reloads(raw, k) ==
    LET state == loadState(raw)
    IN  AddCategoryTo(JsonParse(b64decode(state.enc.ciphertextB64).plaintext),
                      NewCategory(OtherTabCategoryName, k))

\* the updater of onAddCategory in the other tab: its in-memory payload with
\* the new category
OtherTabPayload(raw, k) ==
    AddCategoryTo(InitialData, NewCategory(OtherTabCategoryName, k))

\* Add Category in the other tab, with the persist it starts run to its end:
\* persist loads the stored record, encrypts the payload of that tab under
\* the key of that tab and saves the record with the new enc.iv and
\* enc.ciphertext
OtherTabAddCategory ==
    /\ boot = "app"
    /\ Stored # Null
    /\ DecryptOk(Stored.enc.ciphertextB64, Stored.enc.ivB64, OtherTabKey(Stored))
    /\ rng + 2 <= setups * SetupDraws + MaxDraws
    /\ LET enc == encryptJson(OtherTabPayload(store, rng), OtherTabKey(Stored),
                              randBytes(IV_LEN, rng + 1))
       IN  /\ store' = saveState(PersistedState([state |-> Stored, enc |-> enc]))
           /\ ivLog' = Append(ivLog, enc.iv)
    /\ rng' = rng + 2
    /\ UNCHANGED <<setups, setupErr, pending, setupInput>>
    /\ UNCHANGED appVars
    /\ UNCHANGED loginVars

NextTabs ==
    \/ Next
    \/ OtherTabAddCategory

SpecTabs == Init /\ [][NextTabs]_vars

\* the categories of the stored payload
StoredCategories ==
    JsonParse(PlaintextOf(Stored.enc.ciphertextB64)).categories

\* C22: each write to the shared store replaces the stored payload by the
\* payload of the session that writes.  A write of the other session stores
\* its payload only: no category stored before it is in the store after it,
\* and nothing changes in this session.  A write of this session stores the
\* payload its persist encrypted.
C22_LastWriterWins ==
    [][ /\ OtherTabAddCategory =>
              /\ StoredCategories' = OtherTabPayload(store, rng).categories
              /\ \A i \in 1..Len(StoredCategories), j \in 1..Len(StoredCategories') :
                    StoredCategories[i] # StoredCategories'[j]
              /\ UNCHANGED <<boot, firstName, aesKey, data, setupErr, lsErr>>
        /\ \A op \in pending :
              PersistFinish(op) =>
                  PlaintextOf(Stored'.enc.ciphertextB64) = PlaintextOf(op.enc.ciphertext) ]_vars

\* this session is unlocked with a category it has persisted, no persist is
\* in flight, and the store holds the payload of the other session only
C22_Witness ==
    /\ boot = "app"
    /\ pending = {}
    /\ Len(data.categories) = 1
    /\ data.categories[1].name = "Cash"
    /\ StoreDecryptsTo(aesKey, [InitialData EXCEPT !.categories = StoredCategories])
    /\ Len(StoredCategories) = 1
    /\ StoredCategories[1].name = OtherTabCategoryName

-----------------------------------------------------------------------------
(* The ledger: categories and entries of one unlocked session *)

\* the random values the ledger handlers may draw after Setup
MaxLedgerDraws == 9

LedgerRoom(key, raw, drawn) ==
    rng + drawn + PersistDraws(key, raw) <= setups * SetupDraws + MaxLedgerDraws

\* the ids of the categories or entries in a list
Ids(list) == {list[i].id : i \in 1..Len(list)}

\* the categories the 'category:delete' records of the history hold
DeletedCategories(d) ==
    {d.history[i].category :
        i \in {j \in 1..Len(d.history) : d.history[j].type = "category:delete"}}

\* AddEntry keeps categoryId in its own state: the first category when it is
\* empty (useState, useEffect), or the category chosen in the Select, which
\* lists the current categories.  Nothing resets it when its category is
\* deleted.  While the session stays unlocked on the Dashboard, it is the id
\* of a category that is listed now or has been listed and deleted since.
FormCategoryIds(d) == Ids(d.categories) \cup {c.id : c \in DeletedCategories(d)}

EntryAmount == 50
EntryDate == "2024-01-01T00:00:00.000Z"

\* the entry the AddEntry form builds: { id: newId(), categoryId, amount, dateISO }
NewEntry(categoryId, k) ==
    [id |-> newId(k), categoryId |-> categoryId, amount |-> EntryAmount,
     dateISO |-> EntryDate]

\* the updater of onAddEntry (the ts of a history record is not modelled)
AddEntryTo(prev, entry, k) ==
    [prev EXCEPT !.entries = Append(@, entry),
                 !.history = Append(@, [id |-> newId(k), type |-> "entry:add",
                                        entry |-> entry])]

\* the Add Savings Entry button: onAdd(entry), whose updater calls persist(nd)
AddEntry(categoryId) ==
    /\ boot = "app"
    /\ categoryId \in FormCategoryIds(data)
    /\ LedgerRoom(aesKey, store, 2)
    /\ LET nd == AddEntryTo(data, NewEntry(categoryId, rng), rng + 1)
       IN  /\ data' = nd
           /\ pending' = PersistStart(pending, nd, aesKey, store, rng + 2)
           /\ ivLog' = ivLog \o PersistIvs(nd, aesKey, store, rng + 2)
    /\ rng' = rng + 2 + PersistDraws(aesKey, store)
    /\ UNCHANGED <<store, setups, boot, firstName, aesKey, setupErr, setupInput>>
    /\ UNCHANGED loginVars

\* the updater of onDeleteCategory, had it left the entries as they were
DeleteCategoryFrom_KeepsEntries(prev, catId, k) ==
    IF catId \notin Ids(prev.categories) THEN prev
    ELSE LET cat == CHOOSE c \in {prev.categories[i] : i \in 1..Len(prev.categories)} :
                        c.id = catId
         IN  [prev EXCEPT
                !.categories = SelectSeq(@, LAMBDA c : c.id # catId),
                !.history = Append(@, [id |-> newId(k), type |-> "category:delete",
                                       category |-> cat,
                                       removedEntriesCount |-> 0])]

\* the updater of onDeleteCategory
DeleteCategoryFrom(prev, catId, k) ==
    IF catId \notin Ids(prev.categories) THEN prev
    ELSE LET cat == CHOOSE c \in {prev.categories[i] : i \in 1..Len(prev.categories)} :
                        c.id = catId
             entriesLeft == SelectSeq(prev.entries, LAMBDA e : e.categoryId # catId)
         IN  [prev EXCEPT
                !.categories = SelectSeq(@, LAMBDA c : c.id # catId),
                !.entries = entriesLeft,
                !.history = Append(@, [id |-> newId(k), type |-> "category:delete",
                                       category |-> cat,
                                       removedEntriesCount |->
                                           Len(prev.entries) - Len(entriesLeft)])]

\* onDeleteCategory(catId), with what the user answers to confirm()
DeleteCategory(catId, ok) ==
    /\ boot = "app"
    /\ IF catId \notin Ids(data.categories) \/ ~ok
       THEN UNCHANGED <<data, pending, ivLog, rng>>
       ELSE /\ LedgerRoom(aesKey, store, 1)
            /\ LET nd == DeleteCategoryFrom(data, catId, rng)
               IN  /\ data' = nd
                   /\ pending' = PersistStart(pending, nd, aesKey, store, rng + 1)
                   /\ ivLog' = ivLog \o PersistIvs(nd, aesKey, store, rng + 1)
            /\ rng' = rng + 1 + PersistDraws(aesKey, store)
    /\ UNCHANGED <<store, setups, boot, firstName, aesKey, setupErr, setupInput>>
    /\ UNCHANGED loginVars

\* the updater of onDeleteEntry
DeleteEntryFrom(prev, entryId, k) ==
    LET target == CHOOSE e \in {prev.entries[i] : i \in 1..Len(prev.entries)} :
                      e.id = entryId
    IN  [prev EXCEPT
           !.entries = SelectSeq(@, LAMBDA e : e.id # entryId),
           !.history = Append(@, [id |-> newId(k), type |-> "entry:delete",
                                  entry |-> target])]

\* the delete button of a row of the Data tab: onDeleteEntry(e.id)
DeleteEntry(entryId) ==
    /\ boot = "app"
    /\ entryId \in Ids(data.entries)
    /\ LedgerRoom(aesKey, store, 1)
    /\ LET nd == DeleteEntryFrom(data, entryId, rng)
       IN  /\ data' = nd
           /\ pending' = PersistStart(pending, nd, aesKey, store, rng + 1)
           /\ ivLog' = ivLog \o PersistIvs(nd, aesKey, store, rng + 1)
    /\ rng' = rng + 1 + PersistDraws(aesKey, store)
    /\ UNCHANGED <<store, setups, boot, firstName, aesKey, setupErr, setupInput>>
    /\ UNCHANGED loginVars

\* every id handed out so far
IdsDrawn == {newId(k) : k \in 0..rng}

\* one session from the first page load to the unlocked app, and its ledger
NextLedger ==
    \/ Boot
    \/ \E fn \in FirstNames, pw \in SetupPasswords, cf \in Passwords, qas \in SetupQAs :
          HandleSetup(fn, pw, cf, qas)
    \/ \E p \in Passwords : SetPassword(p)
    \/ VerifyPassword
    \/ \E script \in AnswerScripts : SetAnswers(script)
    \/ VerifyQuestions
    \/ \E name \in CategoryNames : AddCategory(name)
    \/ \E categoryId \in IdsDrawn : AddEntry(categoryId)
    \/ \E catId \in IdsDrawn, ok \in BOOLEAN : DeleteCategory(catId, ok)
    \/ \E entryId \in IdsDrawn : DeleteEntry(entryId)
    \/ \E op \in pending : PersistFinish(op)

SpecLedger == Init /\ [][NextLedger]_vars

\* the elements of a list
Range(list) == {list[i] : i \in 1..Len(list)}

\* the entries of payload d that belong to category catId
Linked(d, catId) == {i \in 1..Len(d.entries) : d.entries[i].categoryId = catId}

\* C29: a confirmed onDeleteCategory(catId) for an existing category removes
\* that category and exactly the entries with that categoryId, keeps every
\* other category and entry in order, and appends one 'category:delete'
\* history record whose removedEntriesCount is the number of entries removed;
\* for an id no category has, or a declined confirmation, the payload is
\* unchanged and no persist is started.
C29_DeleteCategoryCascades ==
    [][ \A catId \in IdsDrawn, ok \in BOOLEAN :
          DeleteCategory(catId, ok) =>
            IF ok /\ catId \in Ids(data.categories)
            THEN /\ Range(data'.categories)
                      = {c \in Range(data.categories) : c.id # catId}
                 /\ Len(data'.categories) = Len(data.categories) - 1
                 /\ Range(data'.entries)
                      = {e \in Range(data.entries) : e.categoryId # catId}
                 /\ Len(data'.entries)
                      = Len(data.entries) - Cardinality(Linked(data, catId))
                 /\ Len(data'.history) = Len(data.history) + 1
                 /\ SubSeq(data'.history, 1, Len(data.history)) = data.history
                 /\ LET h == data'.history[Len(data'.history)]
                    IN  /\ h.type = "category:delete"
                        /\ h.category.id = catId
                        /\ h.removedEntriesCount = Cardinality(Linked(data, catId))
                 /\ data'.currencies = data.currencies
                 /\ data'.baseCurrency = data.baseCurrency
            ELSE /\ data' = data
                 /\ pending' = pending
                 /\ store' = store
                 /\ ivLog' = ivLog ]_vars

\* a category has been deleted with an entry of its own, and another
\* category is still listed
C29_Witness ==
    /\ boot = "app"
    /\ Len(data.categories) = 1
    /\ Len(data.history) >= 2
    /\ LET h == data.history[Len(data.history)]
       IN  /\ h.type = "category:delete"
           /\ h.removedEntriesCount = 1
           /\ h.category.id \notin Ids(data.categories)
           /\ \A i \in 1..Len(data.entries) : data.entries[i].categoryId # h.category.id

\* C30: every entry's categoryId is the id of an existing category.
C30_EntriesReferToCategories ==
    \A i \in 1..Len(data.entries) :
        data.entries[i].categoryId \in Ids(data.categories)

-----------------------------------------------------------------------------
(* The currency table of one unlocked session *)

\* currency codes as the handlers may receive them: TotalsBar passes them
\* upper-cased, the handlers upper-case them again
Codes == {"BDT", "USD"}
RemoveCodes == {"BDT", "bdt", "USD", "usd"}
NewRate == 85

\* String.prototype.toUpperCase on a currency code
CodeToUpperCase(code) ==
    IF code = "bdt" THEN "BDT"
    ELSE IF code = "usd" THEN "USD"
    ELSE code

\* String(prev.baseCurrency||'BDT').toUpperCase()
BaseOf(prev) ==
    CodeToUpperCase(IF prev.baseCurrency = "" THEN "BDT" ELSE prev.baseCurrency)

\* String(cat.currency||base).toUpperCase()
CurrencyOf(cat, base) ==
    CodeToUpperCase(IF cat.currency = "" THEN base ELSE cat.currency)

\* the updater of onAddCurrency: the rows of other codes, then the new row
AddCurrencyTo(prev, code, rate) ==
    [prev EXCEPT !.currencies =
        Append(SelectSeq(@, LAMBDA c : CodeToUpperCase(c.code) # CodeToUpperCase(code)),
               [code |-> CodeToUpperCase(code), rate |-> rate])]

\* the Add / Update button of TotalsBar: onAddCurrency({ code, rate })
AddCurrency(code, rate) ==
    /\ boot = "app"
    /\ PersistRoom(aesKey, store, 0)
    /\ LET nd == AddCurrencyTo(data, code, rate)
       IN  /\ data' = nd
           /\ pending' = PersistStart(pending, nd, aesKey, store, rng)
           /\ ivLog' = ivLog \o PersistIvs(nd, aesKey, store, rng)
    /\ rng' = rng + PersistDraws(aesKey, store)
    /\ UNCHANGED <<store, setups, boot, firstName, aesKey, setupErr, setupInput>>
    /\ UNCHANGED loginVars

\* onSetBaseCurrency(code): the handler takes any code, also one the table has
\* no row for (the Select of TotalsBar lists the codes of the table)
SetBaseCurrency(code) ==
    /\ boot = "app"
    /\ PersistRoom(aesKey, store, 0)
    /\ LET nd == [data EXCEPT !.baseCurrency = CodeToUpperCase(code)]
       IN  /\ data' = nd
           /\ pending' = PersistStart(pending, nd, aesKey, store, rng)
           /\ ivLog' = ivLog \o PersistIvs(nd, aesKey, store, rng)
    /\ rng' = rng + PersistDraws(aesKey, store)
    /\ UNCHANGED <<store, setups, boot, firstName, aesKey, setupErr, setupInput>>
    /\ UNCHANGED loginVars

\* the two refusals of onRemoveCurrency, had it looked at the base currency only
RemoveCurrencyRefused_BaseOnly(prev, code) ==
    CodeToUpperCase(code) = BaseOf(prev)

\* the two refusals of onRemoveCurrency: the code is the base currency, or
\* some category uses it (the updater alerts and returns prev)
RemoveCurrencyRefused(prev, code) ==
    LET up == CodeToUpperCase(code)
        base == BaseOf(prev)
    IN  \/ up = base
        \/ \E i \in 1..Len(prev.categories) : CurrencyOf(prev.categories[i], base) = up

\* the updater of onRemoveCurrency when it does not refuse
RemoveCurrencyFrom(prev, code) ==
    LET up == CodeToUpperCase(code)
        next == SelectSeq(prev.currencies, LAMBDA c : CodeToUpperCase(c.code) # up)
    IN  [prev EXCEPT !.currencies =
            IF Len(next) # 0 THEN next ELSE << [code |-> BaseOf(prev), rate |-> 1] >>]

\* onRemoveCurrency(code)
RemoveCurrency(code) ==
    /\ boot = "app"
    /\ IF RemoveCurrencyRefused(data, code)
       THEN UNCHANGED <<data, pending, ivLog, rng>>
       ELSE /\ PersistRoom(aesKey, store, 0)
            /\ LET nd == RemoveCurrencyFrom(data, code)
               IN  /\ data' = nd
                   /\ pending' = PersistStart(pending, nd, aesKey, store, rng)
                   /\ ivLog' = ivLog \o PersistIvs(nd, aesKey, store, rng)
            /\ rng' = rng + PersistDraws(aesKey, store)
    /\ UNCHANGED <<store, setups, boot, firstName, aesKey, setupErr, setupInput>>
    /\ UNCHANGED loginVars

\* one session from the first page load to the unlocked app, its categories
\* and its currency table
NextCurrency ==
    \/ Boot
    \/ \E fn \in FirstNames, pw \in SetupPasswords, cf \in Passwords, qas \in SetupQAs :
          HandleSetup(fn, pw, cf, qas)
    \/ \E p \in Passwords : SetPassword(p)
    \/ VerifyPassword
    \/ \E script \in AnswerScripts : SetAnswers(script)
    \/ VerifyQuestions
    \/ \E name \in CategoryNames : AddCategory(name)
    \/ \E code \in Codes : AddCurrency(code, NewRate)
    \/ \E code \in Codes : SetBaseCurrency(code)
    \/ \E code \in RemoveCodes : RemoveCurrency(code)
    \/ \E op \in pending : PersistFinish(op)

SpecCurrency == Init /\ [][NextCurrency]_vars

\* two codes are the same currency, whatever their case
SameCurrency(a, b) == CodeToUpperCase(a) = CodeToUpperCase(b)

\* the rows of the currency table of payload d whose code is not `code`
OtherRows(d, code) ==
    SelectSeq(d.currencies, LAMBDA c : ~SameCurrency(c.code, code))

\* C31: onRemoveCurrency(code) leaves the payload unchanged and starts no
\* persist when code is, whatever its case, the base currency or the currency
\* of some category (a category without a currency uses the base currency);
\* otherwise it removes exactly the rows of the currency table with that code,
\* keeps everything else, starts a persist, and a table that would be empty
\* becomes the one row of the base currency at rate 1.
C31_RemoveCurrencyGuarded ==
    [][ \A code \in RemoveCodes :
          RemoveCurrency(code) =>
            IF \/ SameCurrency(code, data.baseCurrency)
               \/ \E i \in 1..Len(data.categories) :
                     SameCurrency(code, IF data.categories[i].currency = ""
                                        THEN data.baseCurrency
                                        ELSE data.categories[i].currency)
            THEN /\ data' = data
                 /\ pending' = pending
                 /\ store' = store
                 /\ ivLog' = ivLog
            ELSE /\ data'.currencies =
                        IF OtherRows(data, code) = << >>
                        THEN << [code |-> data.baseCurrency, rate |-> 1] >>
                        ELSE OtherRows(data, code)
                 /\ Len(data'.currencies) >= 1
                 /\ data' = [data EXCEPT !.currencies = data'.currencies]
                 /\ pending' # pending ]_vars

\* the only row of the table has been removed and the table fell back to the
\* one row of the base currency at rate 1 (Add / Update gives rate NewRate)
C31_Witness ==
    /\ boot = "app"
    /\ data.baseCurrency = "USD"
    /\ data.currencies = << [code |-> "USD", rate |-> 1] >>

====
